---- MODULE Spec2Model ----
(***************************************************************************)
(* A model of IPython/core/history.py: the HistoryManager (in-memory       *)
(* current-session buffers, write-back cache, SQLite store with the three  *)
(* tables sessions / history / output_history) driven by a shell that      *)
(* supplies the prompt numbers.                                            *)
(*                                                                         *)
(* Python strings are sequences of one-character strings, so that strip()  *)
(* and rstrip() are computed.  Python lists are sequences whose Python     *)
(* index i is the TLA+ index i+1.  None / SQL NULL is <<>> and a present   *)
(* value v is <<v>>.  A table is the set of its rows; INSERT enforces the  *)
(* PRIMARY KEY.  The only insert failure modelled is sqlite3's             *)
(* IntegrityError on a duplicate (session, line) key.                      *)
(***************************************************************************)
EXTENDS Integers, Sequences, FiniteSets, TLC

\* ------------------------------------------------------------------ bounds
\* Calls made on the manager in one run, not counting the calls that only
\* write the cache out or read (writeout_cache, get_hist_tail,
\* get_hist_search, get_history).  It also bounds the prompt numbers, the
\* session ids and the cached rows.
MaxCalls == 5

\* ----------------------------------------------------------------- strings
None == <<>>
Some(v) == <<v>>

Whitespace == {" ", "\n", "\t"}

RECURSIVE rstrip(_)
rstrip(s) ==
    IF s = <<>> THEN <<>>
    ELSE IF s[Len(s)] \in Whitespace THEN rstrip(SubSeq(s, 1, Len(s) - 1))
    ELSE s

RECURSIVE lstrip(_)
lstrip(s) ==
    IF s = <<>> THEN <<>>
    ELSE IF s[1] \in Whitespace THEN lstrip(Tail(s))
    ELSE s

strip(s) == lstrip(rstrip(s))

_exit_commands ==
    { <<"Q","u","i","t">>, <<"q","u","i","t">>,
      <<"E","x","i","t">>, <<"e","x","i","t">>,
      <<"%","Q","u","i","t">>, <<"%","q","u","i","t">>,
      <<"%","E","x","i","t">>, <<"%","e","x","i","t">> }

\* Variant: the membership test without the strip().
IsExitCommandNoStrip(source_raw) == source_raw \in _exit_commands

\* store_inputs: source_raw.strip() in self._exit_commands
IsExitCommand(source_raw) == strip(source_raw) \in _exit_commands

\* The (source, source_raw) pairs the shell passes to store_inputs; a
\* source_raw of None is the omitted argument.
StoredCalls ==
    { [source |-> <<"a","\n">>,         source_raw |-> Some(<<" ","a"," ","\n">>)],
      [source |-> <<"e","x","i","t">>,  source_raw |-> Some(<<"E","X","I","T">>)] }

IgnoredCalls ==
    { [source |-> <<"q">>,  source_raw |-> Some(<<" ","%","Q","u","i","t","\n">>)],
      [source |-> <<"e","x","i","t">>,  source_raw |-> None] }

InputCalls == StoredCalls \cup IgnoredCalls

\* Values the display hook records as output of a line.
OutputValues == {7}

\* db_cache_size as configured (the default is 0).
CacheSizes == {0, 1, 2, 100}

SessionNames == { <<"w">> }

\* ------------------------------------------------------------------- state
VARIABLES
    session_number,      \* HistoryManager.session_number
    input_hist_parsed,   \* list, seeded with ""
    input_hist_raw,      \* list, seeded with ""
    output_hist,         \* defaultdict(list): line -> live output values
    db_log_output,       \* config
    db_cache_size,       \* config
    db_input_cache,      \* list of (session, line, source, source_raw)
    db_output_cache,     \* list of (session, line, output)
    _i00, _i, _ii, _iii, \* the last raw inputs
    user_ns,             \* shell.user_ns, the names the manager injected
    sessions,            \* table sessions; row k has session = k
    history,             \* table history
    output_history,      \* table output_history
    clock,               \* datetime.datetime.now()
    execution_count,     \* the shell's prompt counter (last number handed out)
    output_logged,       \* the shell called store_output for this prompt
    stored_inputs,       \* log: rows store_inputs appended to the cache
    stored_outputs,      \* log: rows store_output produced (call returned)
    n_since_reset,       \* log: non-ignored store_inputs calls since reset
    ret,                 \* the last call: its name, arguments, outcome
    ncalls               \* calls counted against MaxCalls

mgr_vars == << session_number, input_hist_parsed, input_hist_raw, output_hist,
               db_log_output, db_cache_size, db_input_cache, db_output_cache,
               _i00, _i, _ii, _iii, user_ns >>
db_vars == << sessions, history, output_history, clock >>
env_vars == << execution_count, output_logged, stored_inputs, stored_outputs,
               n_since_reset, ret >>
vars == << mgr_vars, db_vars, env_vars, ncalls >>

\* ------------------------------------------------------------- the store
\* A row of sessions as new_session inserts it: (NULL, now, NULL, NULL, "").
SessionRow(now) == [start |-> now, end |-> None, num_cmds |-> None, remark |-> <<>>]

\* Variant: the cached tuple carrying the rstrip'd strings of the lists.
InputRowStripped(session, line_num, source, source_raw) ==
    [session |-> session, line |-> line_num,
     source |-> rstrip(source), source_raw |-> rstrip(source_raw)]

\* The tuple store_inputs appends to db_input_cache.
InputRow(session, line_num, source, source_raw) ==
    [session |-> session, line |-> line_num,
     source |-> source, source_raw |-> source_raw]

\* repr(x) of an output value.
repr(x) == ToString(x)

\* json.dumps of a list of strings: the serialized text, kept apart from the list.
Dumps(xs) == [json |-> xs]
\* json.loads(out) if out else None
Loads(out) == IF out = None THEN None ELSE Some(out[1].json)

\* The tuple store_output builds: (session, line_num, json.dumps([repr(x) ...])).
OutputRow(session, line_num, values) ==
    [session |-> session, line |-> line_num,
     output |-> Dumps([k \in 1..Len(values) |-> repr(values[k])])]

Key(row) == << row.session, row.line >>
Keys(table) == { Key(row) : row \in table }
Range(seq) == { seq[k] : k \in 1..Len(seq) }

\* executemany("INSERT ...", rows) is rejected (sqlite3.IntegrityError) when a
\* row's (session, line) is already in the table or earlier in the batch.
Rejected(table, rows) ==
    \E k \in 1..Len(rows) :
        \/ Key(rows[k]) \in Keys(table)
        \/ \E j \in 1..(k - 1) : Key(rows[j]) = Key(rows[k])

\* Variant: a flush that commits the input rows alone.
TransactionInputsOnly(in_cache, out_cache) ==
    [ok |-> ~Rejected(history, in_cache),
     history |-> IF ~Rejected(history, in_cache) THEN history \cup Range(in_cache)
                 ELSE history,
     output_history |-> output_history]

\* The transaction of writeout_cache ("with self.db:" commits, or rolls back
\* and re-raises): both executemany calls take effect, or neither does.
Transaction(in_cache, out_cache) ==
    LET ok == ~Rejected(history, in_cache) /\ ~Rejected(output_history, out_cache)
    IN  [ok |-> ok,
         history |-> IF ok THEN history \cup Range(in_cache) ELSE history,
         output_history |-> IF ok THEN output_history \cup Range(out_cache)
                            ELSE output_history]

\* Variant: the caches reset whether or not the transaction raised.
CacheAfterAlwaysCleared(ok, cache) == <<>>

\* The caches after writeout_cache: the two assignments after the with block
\* are reached only when the transaction did not raise.
CacheAfter(ok, cache) == IF ok THEN <<>> ELSE cache

\* Variant: a strict comparison.
FlushDueStrict(cache, size) == Len(cache) > size

\* len(self.db_input_cache) >= self.db_cache_size
FlushDue(cache, size) == Len(cache) >= size

\* Variant: the count without the -1 for the seed element.
NumCmdsWithSeed(buffer) == Len(buffer)

\* len(self.input_hist_parsed)-1
NumCmds(buffer) == Len(buffer) - 1

\* ----------------------------------------------------------------- calls
Ret(op, raised) ==
    [op |-> op, raised |-> raised, new_session |-> FALSE,
     line_num |-> 0, source |-> <<>>, source_raw |-> <<>>]

Init ==
    /\ db_log_output \in BOOLEAN
    /\ db_cache_size \in CacheSizes
    /\ input_hist_parsed = << <<>> >>
    /\ input_hist_raw = << <<>> >>
    /\ output_hist = [n \in 1..MaxCalls |-> <<>>]
    /\ db_input_cache = <<>>
    /\ db_output_cache = <<>>
    /\ _i00 = <<>> /\ _i = <<>> /\ _ii = <<>> /\ _iii = <<>>
    /\ user_ns = <<>>
    \* init_db on a new file, then new_session
    /\ sessions = << SessionRow(0) >>
    /\ session_number = 1
    /\ history = {}
    /\ output_history = {}
    /\ clock = 1
    /\ execution_count = 0
    /\ output_logged = FALSE
    /\ stored_inputs = {}
    /\ stored_outputs = {}
    /\ n_since_reset = 0
    /\ ret = Ret("__init__", FALSE)
    /\ ncalls = 0

\* Variant: new_session() clearing the input lists as reset does.
NewSessionClearing ==
    /\ sessions' = Append(sessions, SessionRow(clock))
    /\ session_number' = Len(sessions) + 1
    /\ clock' = clock + 1
    /\ ret' = Ret("new_session", FALSE)
    /\ input_hist_parsed' = << <<>> >>
    /\ input_hist_raw' = << <<>> >>
    /\ UNCHANGED << output_hist, db_log_output,
                    db_cache_size, db_input_cache, db_output_cache,
                    _i00, _i, _ii, _iii, user_ns, history, output_history,
                    execution_count, output_logged, stored_inputs, stored_outputs,
                    n_since_reset >>

\* new_session(): INSERT INTO sessions; session_number = cur.lastrowid
NewSession ==
    /\ sessions' = Append(sessions, SessionRow(clock))
    /\ session_number' = Len(sessions) + 1
    /\ clock' = clock + 1
    /\ ret' = Ret("new_session", FALSE)
    /\ UNCHANGED << input_hist_parsed, input_hist_raw, output_hist, db_log_output,
                    db_cache_size, db_input_cache, db_output_cache,
                    _i00, _i, _ii, _iii, user_ns, history, output_history,
                    execution_count, output_logged, stored_inputs, stored_outputs,
                    n_since_reset >>

\* Variant: the UPDATE reaching every session up to the given one.
CloseRowUpTo(table, id, now, num_cmds) ==
    [k \in 1..Len(table) |->
        IF k <= id THEN [table[k] EXCEPT !.end = Some(now), !.num_cmds = Some(num_cmds)]
        ELSE table[k]]

\* UPDATE sessions SET end=?, num_cmds=? WHERE session==?
CloseRow(table, id, now, num_cmds) ==
    [k \in 1..Len(table) |->
        IF k = id THEN [table[k] EXCEPT !.end = Some(now), !.num_cmds = Some(num_cmds)]
        ELSE table[k]]

\* writeout_cache()
WriteoutCache ==
    LET t == Transaction(db_input_cache, db_output_cache)
    IN  /\ history' = t.history
        /\ output_history' = t.output_history
        /\ db_input_cache' = CacheAfter(t.ok, db_input_cache)
        /\ db_output_cache' = CacheAfter(t.ok, db_output_cache)
        /\ ret' = Ret("writeout_cache", ~t.ok)
        /\ UNCHANGED << session_number, input_hist_parsed, input_hist_raw,
                        output_hist, db_log_output, db_cache_size,
                        _i00, _i, _ii, _iii, user_ns, sessions, clock,
                        execution_count, output_logged, stored_inputs,
                        stored_outputs, n_since_reset >>

\* end_session(): writeout_cache, close the row of session_number, become
\* sessionless.  A rejected flush raises before the UPDATE.
EndSession ==
    LET t == Transaction(db_input_cache, db_output_cache)
    IN  /\ history' = t.history
        /\ output_history' = t.output_history
        /\ db_input_cache' = CacheAfter(t.ok, db_input_cache)
        /\ db_output_cache' = CacheAfter(t.ok, db_output_cache)
        /\ ret' = Ret("end_session", ~t.ok)
        /\ IF t.ok
           THEN /\ sessions' = CloseRow(sessions, session_number, clock,
                                        NumCmds(input_hist_parsed))
                /\ clock' = IF session_number = 0 THEN clock ELSE clock + 1
                /\ session_number' = 0
           ELSE UNCHANGED << sessions, clock, session_number >>
        /\ UNCHANGED << input_hist_parsed, input_hist_raw,
                        output_hist, db_log_output, db_cache_size,
                        _i00, _i, _ii, _iii, user_ns,
                        execution_count, output_logged, stored_inputs,
                        stored_outputs, n_since_reset >>

\* name_session(name): UPDATE sessions SET remark=? WHERE session==?
NameSession(name) ==
    /\ sessions' = [k \in 1..Len(sessions) |->
                       IF k = session_number THEN [sessions[k] EXCEPT !.remark = name]
                       ELSE sessions[k]]
    /\ ret' = Ret("name_session", FALSE)
    /\ UNCHANGED << session_number, input_hist_parsed, input_hist_raw, output_hist,
                    db_log_output, db_cache_size, db_input_cache, db_output_cache,
                    _i00, _i, _ii, _iii, user_ns, history, output_history, clock,
                    execution_count, output_logged, stored_inputs, stored_outputs,
                    n_since_reset >>

\* reset(new_session): end the open session (which flushes, and raises when
\* the flush is rejected), clear the in-memory lists, open a session if asked.
\* The shell restarts its prompt counter.
Reset(new_session) ==
    LET closing == session_number # 0
        t == Transaction(db_input_cache, db_output_cache)
        ok == ~closing \/ t.ok
        closed == IF closing
                  THEN CloseRow(sessions, session_number, clock,
                                NumCmds(input_hist_parsed))
                  ELSE sessions
        now == IF closing THEN clock + 1 ELSE clock
    IN  /\ ret' = [Ret("reset", ~ok) EXCEPT !.new_session = new_session]
        /\ IF ok
           THEN /\ history' = IF closing THEN t.history ELSE history
                /\ output_history' = IF closing THEN t.output_history
                                     ELSE output_history
                /\ db_input_cache' = IF closing THEN CacheAfter(t.ok, db_input_cache)
                                     ELSE db_input_cache
                /\ db_output_cache' = IF closing THEN CacheAfter(t.ok, db_output_cache)
                                      ELSE db_output_cache
                /\ input_hist_parsed' = << <<>> >>
                /\ input_hist_raw' = << <<>> >>
                /\ output_hist' = [n \in 1..MaxCalls |-> <<>>]
                /\ sessions' = IF new_session THEN Append(closed, SessionRow(now))
                               ELSE closed
                /\ session_number' = IF new_session THEN Len(sessions) + 1 ELSE 0
                /\ clock' = IF new_session THEN now + 1 ELSE now
                /\ execution_count' = 0
                /\ output_logged' = FALSE
                /\ n_since_reset' = 0
           ELSE UNCHANGED << history, output_history, db_input_cache,
                             db_output_cache, input_hist_parsed, input_hist_raw,
                             output_hist, sessions, session_number, clock,
                             execution_count, output_logged, n_since_reset >>
        /\ UNCHANGED << db_log_output, db_cache_size, _i00, _i, _ii, _iii, user_ns,
                        stored_inputs, stored_outputs >>

\* self.shell.user_ns.update(to_main)
NsUpdate(ns, to_main) ==
    [k \in DOMAIN ns \cup DOMAIN to_main |->
        IF k \in DOMAIN to_main THEN to_main[k] ELSE ns[k]]

\* Variant: the name made from the number before.
NewIShifted(line_num) == "_i" \o ToString(line_num - 1)

\* '_i%s' % line_num
NewI(line_num) == "_i" \o ToString(line_num)

\* store_inputs(line_num, source, source_raw) for the next prompt number.
StoreInputs(source, raw_opt) ==
    LET line_num == execution_count + 1
        source_raw == IF raw_opt = None THEN source ELSE raw_opt[1]
        row == InputRow(session_number, line_num, source, source_raw)
        cache == Append(db_input_cache, row)
        due == FlushDue(cache, db_cache_size)
        t == Transaction(cache, db_output_cache)
        raised == due /\ ~t.ok
        called == [Ret("store_inputs", FALSE) EXCEPT !.line_num = line_num,
                       !.source = source, !.source_raw = source_raw]
    IN  /\ execution_count' = line_num
        /\ output_logged' = FALSE
        /\ IF IsExitCommand(source_raw)
           THEN /\ ret' = called
                /\ UNCHANGED << input_hist_parsed, input_hist_raw, db_input_cache,
                                db_output_cache, history, output_history,
                                _i00, _i, _ii, _iii, user_ns, stored_inputs,
                                n_since_reset >>
           ELSE /\ ret' = [called EXCEPT !.raised = raised]
                /\ input_hist_parsed' = Append(input_hist_parsed, rstrip(source))
                /\ input_hist_raw' = Append(input_hist_raw, rstrip(source_raw))
                /\ stored_inputs' = stored_inputs \cup
                        {[session |-> session_number, line |-> line_num,
                          source |-> source, source_raw |-> source_raw]}
                /\ n_since_reset' = n_since_reset + 1
                /\ history' = IF due THEN t.history ELSE history
                /\ output_history' = IF due THEN t.output_history ELSE output_history
                /\ db_input_cache' = IF due THEN CacheAfter(t.ok, cache) ELSE cache
                /\ db_output_cache' = IF due THEN CacheAfter(t.ok, db_output_cache)
                                      ELSE db_output_cache
                /\ IF raised
                   THEN UNCHANGED << _i00, _i, _ii, _iii, user_ns >>
                   ELSE /\ _iii' = _ii
                        /\ _ii' = _i
                        /\ _i' = _i00
                        /\ _i00' = source_raw
                        /\ user_ns' = NsUpdate(user_ns,
                               [k \in {"_i", "_ii", "_iii", NewI(line_num)} |->
                                   IF k = NewI(line_num) THEN source_raw
                                   ELSE IF k = "_i" THEN _i00
                                   ELSE IF k = "_ii" THEN _i
                                   ELSE _ii])
        /\ UNCHANGED << session_number, output_hist, db_log_output, db_cache_size,
                        sessions, clock, stored_outputs >>

\* The display hook appends a value to output_hist[execution_count].
DisplayOutput(value) ==
    /\ execution_count >= 1
    /\ output_hist' = [output_hist EXCEPT ![execution_count] = Append(@, value)]
    /\ ret' = Ret("displayhook", FALSE)
    /\ UNCHANGED << session_number, input_hist_parsed, input_hist_raw,
                    db_log_output, db_cache_size, db_input_cache, db_output_cache,
                    _i00, _i, _ii, _iii, user_ns, sessions, history,
                    output_history, clock, execution_count, output_logged,
                    stored_inputs, stored_outputs, n_since_reset >>

\* store_output(line_num), called by the shell once for the current prompt.
StoreOutput ==
    LET line_num == execution_count
        row == OutputRow(session_number, line_num, output_hist[line_num])
        skip == (~db_log_output) \/ output_hist[line_num] = <<>>
        cached == db_cache_size > 1
        rejected == Rejected(output_history, << row >>)
        raised == ~skip /\ ~cached /\ rejected
    IN  /\ execution_count >= 1
        /\ ~output_logged
        /\ output_logged' = TRUE
        /\ ret' = [Ret("store_output", raised) EXCEPT !.line_num = line_num]
        /\ IF skip
           THEN UNCHANGED << db_output_cache, output_history, stored_outputs >>
           ELSE IF cached
           THEN /\ db_output_cache' = Append(db_output_cache, row)
                /\ stored_outputs' = stored_outputs \cup {row}
                /\ UNCHANGED output_history
           ELSE /\ output_history' = IF rejected THEN output_history
                                     ELSE output_history \cup {row}
                /\ stored_outputs' = IF rejected THEN stored_outputs
                                     ELSE stored_outputs \cup {row}
                /\ UNCHANGED db_output_cache
        /\ UNCHANGED << session_number, input_hist_parsed, input_hist_raw,
                        output_hist, db_log_output, db_cache_size, db_input_cache,
                        _i00, _i, _ii, _iii, user_ns, sessions, history, clock,
                        execution_count, stored_inputs, n_since_reset >>

\* -------------------------------------------------------------- retrieval
KeyLess(a, b) ==
    \/ a.session < b.session
    \/ a.session = b.session /\ a.line < b.line

\* Rows in ascending (session, line) order, the order of the primary-key index.
RECURSIVE Ascending(_)
Ascending(rows) ==
    IF rows = {} THEN <<>>
    ELSE LET first == CHOOSE r \in rows : \A q \in rows \ {r} : KeyLess(r, q)
         IN  << first >> \o Ascending(rows \ {first})

\* Variant: the rows left in the order of the query.
NotReversed(seq) == seq

\* reversed(list(cur))
Reversed(seq) == [k \in 1..Len(seq) |-> seq[Len(seq) + 1 - k]]

\* LIMIT n (a negative LIMIT is no limit)
Limit(seq, n) ==
    IF n < 0 \/ n >= Len(seq) THEN seq ELSE SubSeq(seq, 1, n)

\* The tuple _get_hist_sql yields for a row: (session, line, text), or with
\* output (session, line, (text, loads(output))) over the LEFT JOIN.
SqlTuple(row, raw, output) ==
    LET text == IF raw THEN row.source_raw ELSE row.source
        joined == { o \in output_history : Key(o) = Key(row) }
        out == IF joined = {} THEN None
               ELSE Some((CHOOSE o \in joined : TRUE).output)
    IN  IF output THEN << row.session, row.line, << text, Loads(out) >> >>
        ELSE << row.session, row.line, text >>

SqlTuples(rows, raw, output) ==
    [k \in 1..Len(rows) |-> SqlTuple(rows[k], raw, output)]

\* SQLite's GLOB over character sequences: * any run, ? any one character.
RECURSIVE Glob(_, _)
Glob(pattern, text) ==
    IF pattern = <<>> THEN text = <<>>
    ELSE IF pattern[1] = "*"
    THEN \E k \in 0..Len(text) : Glob(Tail(pattern), SubSeq(text, k + 1, Len(text)))
    ELSE /\ text # <<>>
         /\ pattern[1] = "?" \/ pattern[1] = text[1]
         /\ Glob(Tail(pattern), Tail(text))

\* What get_hist_tail(n, raw, output) returns once the cache is written out:
\* ORDER BY session DESC, line DESC LIMIT n, reversed.
HistTail(n, raw, output) ==
    Reversed(Limit(Reversed(SqlTuples(Ascending(history), raw, output)), n))

\* What get_hist_search(pattern, raw, output) returns once the cache is
\* written out (the rows of a table scan, their order left open).
HistSearch(pattern, raw, output) ==
    { SqlTuple(row, raw, output) :
        row \in { r \in history :
                    Glob(pattern, IF raw THEN r.source_raw ELSE r.source) } }

\* list[i] of Python: <<value>>, or None for an IndexError.
PyItem(list, i) ==
    IF 0 <= i /\ i < Len(list) THEN Some(list[i + 1])
    ELSE IF -Len(list) <= i /\ i < 0 THEN Some(list[Len(list) + i + 1])
    ELSE None

\* The rows range(start, stop) of _get_hist_session yields before the first
\* IndexError, and whether one was raised.
RECURSIVE SessionRows(_, _, _)
SessionRows(input_hist, i, stop) ==
    IF i >= stop THEN [rows |-> <<>>, raised |-> FALSE]
    ELSE IF PyItem(input_hist, i) = None THEN [rows |-> <<>>, raised |-> TRUE]
    ELSE LET rest == SessionRows(input_hist, i + 1, stop)
         IN  [rows |-> << << 0, i, PyItem(input_hist, i)[1] >> >> \o rest.rows,
              raised |-> rest.raised]

\* _get_hist_session(start, stop, raw); stop is None or <<k>>.
GetHistSession(start, stop, raw) ==
    LET input_hist == IF raw THEN input_hist_raw ELSE input_hist_parsed
        n == Len(input_hist)
        start1 == IF start < 0 THEN start + n ELSE start
        stop1 == IF stop = None \/ stop = Some(0) THEN n
                 ELSE IF stop[1] < 0 THEN stop[1] + n
                 ELSE stop[1]
    IN  SessionRows(input_hist, start1, stop1)

\* get_history(session, start, stop, raw): the current session from memory,
\* any other from the store as it is (no writeout_cache on this path).
GetHistory(session, start, stop, raw) ==
    IF session = 0 \/ session = session_number
    THEN GetHistSession(start, stop, raw)
    ELSE LET sess == IF session < 0 THEN session + session_number ELSE session
             found == { r \in history :
                          /\ r.session = sess
                          /\ r.line >= start
                          /\ (stop = None \/ stop = Some(0) \/ r.line < stop[1]) }
         IN  [rows |-> SqlTuples(Ascending(found), raw, FALSE), raised |-> FALSE]

\* A call of get_history leaves the manager and the store as they are.
GetHistoryCall ==
    /\ ret' = Ret("get_history", FALSE)
    /\ UNCHANGED << mgr_vars, db_vars, execution_count, output_logged,
                    stored_inputs, stored_outputs, n_since_reset >>

\* get_hist_tail / get_hist_search: writeout_cache(), then the query.
ReadFlushed(op) ==
    LET t == Transaction(db_input_cache, db_output_cache)
    IN  /\ history' = t.history
        /\ output_history' = t.output_history
        /\ db_input_cache' = CacheAfter(t.ok, db_input_cache)
        /\ db_output_cache' = CacheAfter(t.ok, db_output_cache)
        /\ ret' = Ret(op, ~t.ok)
        /\ UNCHANGED << session_number, input_hist_parsed, input_hist_raw,
                        output_hist, db_log_output, db_cache_size,
                        _i00, _i, _ii, _iii, user_ns, sessions, clock,
                        execution_count, output_logged, stored_inputs,
                        stored_outputs, n_since_reset >>

\* Variant: the query without the writeout_cache() before it.
ReadNoFlush(op) ==
    /\ ret' = Ret(op, FALSE)
    /\ UNCHANGED << mgr_vars, db_vars, execution_count, output_logged,
                    stored_inputs, stored_outputs, n_since_reset >>

GetHistTailNoFlush == ReadNoFlush("get_hist_tail")

GetHistTail == ReadFlushed("get_hist_tail")

GetHistSearch == ReadFlushed("get_hist_search")

\* ----------------------------------------------------------- range strings
\* The decimal digits; Digits[k + 1] is the character of k.
Digits == << "0", "1", "2", "3", "4", "5", "6", "7", "8", "9" >>

\* \d
IsDigit(c) == \E k \in 1..Len(Digits) : Digits[k] = c

DigitValue(c) == (CHOOSE k \in 1..Len(Digits) : Digits[k] = c) - 1

RECURSIVE IntDigits(_)
IntDigits(s) ==
    IF s = <<>> THEN 0
    ELSE 10 * IntDigits(SubSeq(s, 1, Len(s) - 1)) + DigitValue(s[Len(s)])

\* int(s) of a string of digits, with a sign or without
int(s) == IF s[1] = "-" THEN 0 - IntDigits(Tail(s)) ELSE IntDigits(s)

\* s.replace(old, new) for one-character old and new
replace(s, old, new) == [k \in 1..Len(s) |-> IF s[k] = old THEN new ELSE s[k]]

\* The length of the run of non-whitespace characters s starts with.
RECURSIVE WordLen(_)
WordLen(s) ==
    IF s = <<>> \/ s[1] \in Whitespace THEN 0 ELSE 1 + WordLen(Tail(s))

\* ranges_str.split()
RECURSIVE split(_)
split(s) ==
    LET t == lstrip(s)
        n == WordLen(t)
    IN  IF t = <<>> THEN <<>>
        ELSE << SubSeq(t, 1, n) >> \o split(SubSeq(t, n + 1, Len(t)))

\* The length of the run of digits of s that starts at position i: \d+.
RECURSIVE DigitRun(_, _)
DigitRun(s, i) ==
    IF i <= Len(s) /\ IsDigit(s[i]) THEN 1 + DigitRun(s, i + 1) ELSE 0

\* ((?P<sess>~?\d+)/)? at position i, followed by \d+: the group takes part
\* when "~"? digits "/" stand there and a digit follows; otherwise the match
\* goes on at i without it.
SessPrefix(s, i) ==
    LET j == IF i <= Len(s) /\ s[i] = "~" THEN i + 1 ELSE i
        d == DigitRun(s, j)
        taken == /\ d >= 1
                 /\ j + d <= Len(s)
                 /\ s[j + d] = "/"
                 /\ DigitRun(s, j + d + 1) >= 1
    IN  IF taken THEN [sess |-> Some(SubSeq(s, i, j + d - 1)), next |-> j + d + 1]
        ELSE [sess |-> None, next |-> i]

\* The groups of a match of range_re, given the start session group a, the
\* length n of the start digits, the end session group b and the length m of
\* the end digits: separator, end session and end take part together.
MatchGroups(range_str, a, n, b, m) ==
    LET p == a.next + n
        more == /\ p <= Len(range_str)
                /\ range_str[p] \in {"-", ":"}
                /\ m >= 1
    IN  IF n = 0 THEN None
        ELSE Some([startsess |-> a.sess,
                   start |-> SubSeq(range_str, a.next, p - 1),
                   sep |-> IF more THEN Some(range_str[p]) ELSE None,
                   endsess |-> IF more THEN b.sess ELSE None,
                   end |-> IF more THEN Some(SubSeq(range_str, b.next, b.next + m - 1))
                           ELSE None,
                   matched |-> IF more THEN b.next + m - 1 ELSE p - 1])

MatchEnd(range_str, a, n, b) ==
    MatchGroups(range_str, a, n, b, DigitRun(range_str, b.next))

MatchSep(range_str, a, n) ==
    MatchEnd(range_str, a, n, SessPrefix(range_str, a.next + n + 1))

MatchStart(range_str, a) ==
    MatchSep(range_str, a, DigitRun(range_str, a.next))

\* range_re.match(range_str): None, or the groups of the match, which starts
\* at the first character and ends where the pattern stops matching.
range_re_match(range_str) == MatchStart(range_str, SessPrefix(range_str, 1))

\* Variant: the end taken as written for both separators.
EndAsWritten(end, sep) == end

\* if rmatch.group("sep") == "-": end += 1
EndOf(end, sep) == IF sep = Some("-") THEN end + 1 ELSE end

\* Variant: the sessions between the two, the end session among them.
SessionsBetweenInclusive(startsess, endsess) ==
    [k \in 1..(endsess - startsess) |-> << startsess + k, 1, None >>]

\* for sess in range(startsess+1, endsess): yield (sess, 1, None)
SessionsBetween(startsess, endsess) ==
    [k \in 1..(endsess - startsess - 1) |-> << startsess + k, 1, None >>]

\* The triples (session, start, stop) yielded for the numbers of a token,
\* stop being None or <<k>>, and whether the assert failed.
Triples(startsess, endsess, start, end) ==
    IF ~(endsess >= startsess) THEN [triples |-> <<>>, raised |-> TRUE]
    ELSE IF endsess = startsess
    THEN [triples |-> << << startsess, start, Some(end) >> >>, raised |-> FALSE]
    ELSE [triples |-> << << startsess, start, None >> >>
                      \o SessionsBetween(startsess, endsess)
                      \o << << endsess, 1, Some(end) >> >>,
          raised |-> FALSE]

\* The numbers read from the groups of a match.
RangesOfGroups(g) ==
    LET start == int(g.start)
        startsess == IF g.startsess # None THEN g.startsess[1] ELSE << "0" >>
        endsess == IF g.endsess # None THEN g.endsess[1] ELSE startsess
    IN  Triples(int(replace(startsess, "~", "-")), int(replace(endsess, "~", "-")),
                start,
                EndOf(IF g.end # None THEN int(g.end[1]) ELSE start + 1, g.sep))

RangesOfMatch(rmatch) ==
    IF rmatch = None THEN [triples |-> <<>>, raised |-> FALSE]
    ELSE RangesOfGroups(rmatch[1])

\* One turn of the loop of extract_hist_ranges.
RangesOf(range_str) == RangesOfMatch(range_re_match(range_str))

\* The triples the generator yields token by token, up to a failed assert.
RECURSIVE RangesOfAll(_)
RangesOfAll(tokens) ==
    IF tokens = <<>> THEN [triples |-> <<>>, raised |-> FALSE]
    ELSE LET r == RangesOf(Head(tokens))
             rest == RangesOfAll(Tail(tokens))
         IN  IF r.raised THEN r
             ELSE [triples |-> r.triples \o rest.triples, raised |-> rest.raised]

\* list(extract_hist_ranges(ranges_str)): what was yielded, and whether the
\* iteration ended in an AssertionError.
extract_hist_ranges(ranges_str) == RangesOfAll(split(ranges_str))

\* The rows get_history yields for the triples in turn, up to the first
\* exception.
RECURSIVE HistoryOfAll(_, _)
HistoryOfAll(triples, raw) ==
    IF triples = <<>> THEN [rows |-> <<>>, raised |-> FALSE]
    ELSE LET t == Head(triples)
             h == GetHistory(t[1], t[2], t[3], raw)
             rest == HistoryOfAll(Tail(triples), raw)
         IN  IF h.raised THEN h
             ELSE [rows |-> h.rows \o rest.rows, raised |-> rest.raised]

\* list(get_hist_from_rangestr(rangestr, raw)): the rows yielded, and whether
\* the iteration ended in an exception.
HistoryOfRanges(x, raw) ==
    [rows |-> HistoryOfAll(x.triples, raw).rows,
     raised |-> HistoryOfAll(x.triples, raw).raised \/ x.raised]

get_hist_from_rangestr(rangestr, raw) ==
    HistoryOfRanges(extract_hist_ranges(rangestr), raw)

\* A call of extract_hist_ranges, iterated to its end.
ExtractHistRangesCall(ranges_str) ==
    LET x == extract_hist_ranges(ranges_str)
    IN  /\ ret' = Ret("extract_hist_ranges", x.raised)
                    @@ [ranges_str |-> ranges_str, triples |-> x.triples]
        /\ UNCHANGED << mgr_vars, db_vars, execution_count, output_logged,
                        stored_inputs, stored_outputs, n_since_reset >>

\* A call of get_hist_from_rangestr, iterated to its end.
GetHistFromRangestrCall(rangestr) ==
    LET x == get_hist_from_rangestr(rangestr, TRUE)
    IN  /\ ret' = Ret("get_hist_from_rangestr", x.raised)
                    @@ [ranges_str |-> rangestr, rows |-> x.rows]
        /\ UNCHANGED << mgr_vars, db_vars, execution_count, output_logged,
                        stored_inputs, stored_outputs, n_since_reset >>

\* ---------------------------------------------------- range strings given
\* str(n) of a line or session number, as a caller writes it in a range.
RECURSIVE Str(_)
Str(n) ==
    IF n < 10 THEN << Digits[n + 1] >>
    ELSE Str(n \div 10) \o << Digits[(n % 10) + 1] >>

\* The parts a token of the grammar [sessionA/]start[(-|:)[sessionB/]end] is
\* written from: a session is None or a number with or without "~".
LineNums == {1, 5, 12}
SessParts ==
    { None, Some([tilde |-> FALSE, n |-> 1]),
      Some([tilde |-> TRUE, n |-> 0]), Some([tilde |-> TRUE, n |-> 3]) }
EndParts ==
    {None} \cup { Some([sep |-> sep, endsess |-> b, end |-> e]) :
                      sep \in {"-", ":"}, b \in SessParts, e \in LineNums }
TokenParts == [startsess : SessParts, start : LineNums, rest : EndParts]

SessText(part) ==
    IF part = None THEN <<>>
    ELSE (IF part[1].tilde THEN << "~" >> ELSE <<>>) \o Str(part[1].n) \o << "/" >>

\* The token written from its parts.
TokenText(c) ==
    SessText(c.startsess) \o Str(c.start)
    \o (IF c.rest = None THEN <<>>
        ELSE << c.rest[1].sep >> \o SessText(c.rest[1].endsess) \o Str(c.rest[1].end))

\* The range strings of the documentation.
ExampleStrings ==
    { << "5" >>,
      << "1", "-", "3" >>,
      << "2", ":", "4" >>,
      << "~", "2", "/", "3", "-", "5" >>,
      << "~", "8", "/", "5", "-", "~", "7", "/", "4", " ", "2" >> }

\* Range strings with tokens outside the grammar, alone and among tokens of
\* the grammar, and with more or no whitespace.
LenientStrings ==
    { << "x", "5" >>,
      << "5", "x" >>,
      << "~", "5" >>,
      << "/", "5" >>,
      << "-", "5" >>,
      << "1", "-" >>,
      << "5", "/" >>,
      << "1", "-", "~", "3" >>,
      << "1", ":", "5", ":", "1", "2" >>,
      << "1", "/", "5", "/", "1", "2" >>,
      << "x", "5", " ", "5" >>,
      << "5", "x", " ", "5" >>,
      << "~", "5", " ", "5" >>,
      << "/", "5", " ", "5" >>,
      << "-", "5", " ", "5" >>,
      << "5", " ", "x", "5" >>,
      << "5", " ", "5", "x" >>,
      << "5", " ", "~", "5" >>,
      << "5", " ", "/", "5" >>,
      << "5", " ", "-", "5" >>,
      << "1", "-", "5", " ", "x", "5", " ", "1", "2" >>,
      << "1", "-", "5", " ", "5", "x", " ", "1", "2" >>,
      << "1", "-", "5", " ", "~", "5", " ", "1", "2" >>,
      << "1", "-", "5", " ", "/", "5", " ", "1", "2" >>,
      << "1", "-", "5", " ", " ", "1", "2" >>,
      << " ", "5", " " >>,
      <<  >> }

\* Range strings with a multi-session token that ends before it starts.
BackwardStrings ==
    { << "1", " ", "1", "/", "1", "-", "~", "3", "/", "1" >>,
      << "1", "/", "1", "-", "~", "3", "/", "1", " ", "1" >>,
      << "~", "3", "/", "1", "-", "1", "/", "1" >> }

RangeStrings ==
    { TokenText(c) : c \in TokenParts } \cup ExampleStrings \cup LenientStrings
    \cup BackwardStrings

\* The strings read back through get_hist_from_rangestr.
ReadStrings == BackwardStrings \cup { << "1" >>, << "1", "/", "1" >> }

\* ---------------------------------------------------------- specification
\* A call counted against MaxCalls.
Counted(call) == ncalls < MaxCalls /\ call /\ ncalls' = ncalls + 1

SessionCalls ==
    \/ Counted(NewSession)
    \/ Counted(EndSession)
    \/ \E new_session \in BOOLEAN : Counted(Reset(new_session))

\* An explicit writeout_cache() call.
Flush == WriteoutCache /\ UNCHANGED ncalls

FlushCalls ==
    \/ Flush
    \/ GetHistTail /\ UNCHANGED ncalls
    \/ GetHistSearch /\ UNCHANGED ncalls
    \/ GetHistoryCall /\ UNCHANGED ncalls

OutputCalls ==
    \/ \E value \in OutputValues : Counted(DisplayOutput(value))
    \/ Counted(StoreOutput)

InputsCallsOf(calls) ==
    \E c \in calls : Counted(StoreInputs(c.source, c.source_raw))

InputsCalls == InputsCallsOf(InputCalls)

Next ==
    \/ SessionCalls
    \/ FlushCalls
    \/ OutputCalls
    \/ InputsCalls
    \/ \E name \in SessionNames : Counted(NameSession(name))

\* Every call, under every configuration.
Spec == Init /\ [][Next]_vars

\* The input path: sessions, store_inputs, the cache and the reads, with
\* output logging off (its default).
InitInput == Init /\ db_log_output = FALSE

NextInput ==
    \/ SessionCalls
    \/ FlushCalls
    \/ InputsCalls

SpecInput == InitInput /\ [][NextInput]_vars

\* The output path as well: output logging on, the display hook and
\* store_output added, one stored and one ignored input.
InitOutput == Init /\ db_log_output = TRUE

OutputInputCalls ==
    { c \in InputCalls : c.source_raw \in {None, Some(<<" ","a"," ","\n">>)} }

NextOutput ==
    \/ SessionCalls
    \/ FlushCalls
    \/ OutputCalls
    \/ InputsCallsOf(OutputInputCalls)

SpecOutput == InitOutput /\ [][NextOutput]_vars

\* The caller keeps calling writeout_cache(): the input path with the two
\* stored inputs, and weak fairness of the explicit flush.
InitFair == Init /\ db_log_output = FALSE

NextFair ==
    \/ SessionCalls
    \/ Flush
    \/ InputsCallsOf(StoredCalls)

FairSpec == InitFair /\ [][NextFair]_vars /\ WF_vars(Flush)

\* The session life cycle: opening, closing, naming and resetting sessions
\* around one stored input and the explicit flush.
InitSession == Init /\ db_log_output = FALSE

SessionInputCalls == { c \in StoredCalls : c.source = <<"a","\n">> }

NextSession ==
    \/ SessionCalls
    \/ Flush
    \/ InputsCallsOf(SessionInputCalls)
    \/ \E name \in SessionNames : Counted(NameSession(name))

SpecSession == InitSession /\ [][NextSession]_vars

\* The range parser alone, over the range strings.
InitRanges == Init /\ db_log_output = FALSE /\ db_cache_size = 0

NextRanges ==
    \E ranges_str \in RangeStrings :
        ExtractHistRangesCall(ranges_str) /\ UNCHANGED ncalls

SpecRanges == InitRanges /\ [][NextRanges]_vars

\* Range strings read against a store filled by sessions and stored inputs.
InitRangeRead == Init /\ db_log_output = FALSE /\ db_cache_size = 0

RangeCalls ==
    \E ranges_str \in ReadStrings :
        \/ ExtractHistRangesCall(ranges_str) /\ UNCHANGED ncalls
        \/ GetHistFromRangestrCall(ranges_str) /\ UNCHANGED ncalls

NextRangeRead ==
    \/ SessionCalls
    \/ InputsCallsOf(SessionInputCalls)
    \/ RangeCalls

SpecRangeRead == InitRangeRead /\ [][NextRangeRead]_vars

\* Output logging on and off: the display hook and store_output around one
\* stored input, the sessions and the explicit flush.
InitLog == Init

NextLog ==
    \/ SessionCalls
    \/ Flush
    \/ OutputCalls
    \/ InputsCallsOf(SessionInputCalls)

SpecLog == InitLog /\ [][NextLog]_vars

\* ------------------------------------------------------------------ claims

\* C1: after a store_inputs(n, p, r) whose stripped raw source is not an
\* ignored command has returned, with the prompt numbers supplied in
\* increasing order and gaps allowed, get_history(0, n, n+1) yields exactly
\* one row, (0, n, r.rstrip()) with raw=True and (0, n, p.rstrip()) with
\* raw=False.
C1_StoredLineReadBack ==
    (/\ ret.op = "store_inputs"
     /\ ~ret.raised
     /\ strip(ret.source_raw) \notin _exit_commands)
    => /\ GetHistory(0, ret.line_num, Some(ret.line_num + 1), TRUE)
            = [rows |-> << << 0, ret.line_num, rstrip(ret.source_raw) >> >>,
               raised |-> FALSE]
       /\ GetHistory(0, ret.line_num, Some(ret.line_num + 1), FALSE)
            = [rows |-> << << 0, ret.line_num, rstrip(ret.source) >> >>,
               raised |-> FALSE]

\* C2: a store_inputs call whose stripped raw source is one of the eight
\* ignored commands changes nothing of the manager (both input lists, both
\* caches, _i00/_i/_ii/_iii, the injected names) and nothing of the store.
C2_IgnoredCommandIsNoOp ==
    [][ (/\ ret'.op = "store_inputs"
         /\ strip(ret'.source_raw) \in _exit_commands)
        => UNCHANGED << mgr_vars, db_vars, stored_inputs, n_since_reset >> ]_vars

\* An ignored command that needs strip() to be recognised was passed to a
\* manager that holds stored lines and cached rows.
C2_Witness ==
    /\ ret.op = "store_inputs"
    /\ strip(ret.source_raw) \in _exit_commands
    /\ ret.source_raw \notin _exit_commands
    /\ Len(input_hist_raw) > 1
    /\ db_input_cache # <<>>

\* The history rows of a session as a query over the store returns them.
StoreRowsOf(session) ==
    Ascending({ r \in history : r.session = session })

\* C3: once an explicit writeout_cache has returned, the store holds exactly
\* the rows the store_inputs calls were given (every session's rows, in
\* ascending line order), whatever db_cache_size is: the rows depend on the
\* calls only.
C3_FlushedStoreIsTheCalls ==
    (ret.op = "writeout_cache" /\ ~ret.raised)
    => /\ history = stored_inputs
       /\ \A k \in 0..Len(sessions) :
            /\ Range(StoreRowsOf(k)) = { r \in stored_inputs : r.session = k }
            /\ \A a, b \in 1..Len(StoreRowsOf(k)) :
                  a < b => StoreRowsOf(k)[a].line < StoreRowsOf(k)[b].line

\* Two lines of one session were cached under a threshold that was never
\* reached, and the explicit flush wrote them.
C3_Witness ==
    /\ ret.op = "writeout_cache" /\ ~ret.raised
    /\ db_cache_size = 100
    /\ session_number # 0
    /\ Cardinality({ r \in history : r.session = session_number }) >= 2

\* C4: writeout_cache is all-or-nothing.  When an insert of the batch is
\* rejected the call raises, no row of the batch is in the store and both
\* caches hold what they held; otherwise both caches end empty and every
\* cached row is in the store.  With both caches empty nothing changes.  No
\* row a store call produced is ever in neither the cache nor the store.
C4_FlushAllOrNothing ==
    /\ [][ ret'.op = "writeout_cache"
           => /\ ret'.raised = (\/ Rejected(history, db_input_cache)
                                \/ Rejected(output_history, db_output_cache))
              /\ IF ret'.raised
                 THEN UNCHANGED << mgr_vars, db_vars >>
                 ELSE /\ db_input_cache' = <<>> /\ db_output_cache' = <<>>
                      /\ history' = history \cup Range(db_input_cache)
                      /\ output_history' = output_history \cup Range(db_output_cache)
              /\ (db_input_cache = <<>> /\ db_output_cache = <<>>)
                 => (~ret'.raised /\ UNCHANGED << mgr_vars, db_vars >>) ]_vars
    /\ [](/\ stored_inputs \subseteq Range(db_input_cache) \cup history
          /\ stored_outputs \subseteq Range(db_output_cache) \cup output_history)

\* An explicit flush was rejected and raised with rows in the cache.
C4_Witness ==
    /\ ret.op = "writeout_cache"
    /\ ret.raised
    /\ db_input_cache # <<>>
    /\ \E r \in Range(db_input_cache) : r \notin history

\* Cached rows that are not in the store.
Unwritten ==
    (Range(db_input_cache) \ history) \cup (Range(db_output_cache) \ output_history)

\* C5: every row in the write-back cache is eventually written to the store,
\* given that writeout_cache keeps being called.
C5_CachedRowsEventuallyWritten ==
    (Unwritten # {}) ~> (Unwritten = {})

\* C6: when get_hist_tail or get_hist_search has returned, both caches are
\* empty and every row a store_inputs or store_output call produced is in
\* the tables the query ran over, so in its result: each input row in the
\* rows of a search for "*" and of a tail long enough, with its output row
\* joined to it.
C6_ReadsSeeStoredRows ==
    (ret.op \in {"get_hist_tail", "get_hist_search"} /\ ~ret.raised)
    => /\ db_input_cache = <<>> /\ db_output_cache = <<>>
       /\ stored_inputs \subseteq history
       /\ stored_outputs \subseteq output_history
       /\ \A r \in stored_inputs :
            /\ << r.session, r.line, r.source_raw >>
                  \in Range(HistTail(Cardinality(history), TRUE, FALSE))
            /\ << r.session, r.line, r.source >>
                  \in HistSearch(<<"*">>, FALSE, FALSE)
            /\ \A o \in stored_outputs :
                  Key(o) = Key(r)
                  => << r.session, r.line, << r.source_raw, Some(o.output.json) >> >>
                        \in Range(HistTail(Cardinality(history), TRUE, TRUE))

\* A tail read returned under a cache threshold above 1 after an input and
\* its output were stored.
C6_Witness ==
    /\ ret.op = "get_hist_tail" /\ ~ret.raised
    /\ db_cache_size > 1
    /\ \E r \in stored_inputs : \E o \in stored_outputs : Key(o) = Key(r)

\* C7: get_history for a session that is not the current one returns every
\* row still cached for that session (it writes the cache out first).
C7_OtherSessionSeesCachedRows ==
    \A session \in (-Len(sessions))..Len(sessions) :
        LET sess == IF session < 0 THEN session + session_number ELSE session
        IN  (session # 0 /\ session # session_number)
            => \A r \in Range(db_input_cache) :
                  r.session = sess
                  => << r.session, r.line, r.source_raw >>
                        \in Range(GetHistory(session, 1, None, TRUE).rows)

\* C8: after reset(new_session=True) has returned, get_history(0) yields no
\* line, the lists hold only the seed, session_number is greater than every
\* id used before, and every input stored before is in the store.
C8_ResetKeepsStoredInputs ==
    (ret.op = "reset" /\ ret.new_session /\ ~ret.raised)
    => /\ GetHistory(0, 1, None, TRUE) = [rows |-> <<>>, raised |-> FALSE]
       /\ GetHistory(0, 1, None, FALSE) = [rows |-> <<>>, raised |-> FALSE]
       /\ input_hist_parsed = << <<>> >> /\ input_hist_raw = << <<>> >>
       /\ \A n \in DOMAIN output_hist : output_hist[n] = <<>>
       /\ session_number = Len(sessions)
       /\ \A r \in stored_inputs : r.session < session_number
       /\ stored_inputs \subseteq history

\* C9 as stated: every closed session's row has an end time and a num_cmds
\* equal to the number of non-ignored inputs stored in that session.
C9_CountIsInputsOfSession ==
    \A k \in 1..Len(sessions) :
        sessions[k].end # None
        => sessions[k].num_cmds
              = Some(Cardinality({ r \in stored_inputs : r.session = k }))

\* C9 as amended: end_session, called directly or through reset on an open
\* session, gives that session's row an end time and a num_cmds equal to the
\* number of non-ignored inputs stored since construction or the last reset
\* (the length of the input list without its seed); the cache is written out
\* first (a rejected flush leaves the row and session_number as they were),
\* and end_session leaves session_number 0.
C9_CountIsInputsSinceReset ==
    [][ (/\ ret'.op \in {"end_session", "reset"}
         /\ session_number # 0)
        => IF ret'.raised
           THEN UNCHANGED << sessions, session_number, db_input_cache,
                             db_output_cache >>
           ELSE /\ sessions'[session_number].end = Some(clock)
                /\ sessions'[session_number].num_cmds = Some(n_since_reset)
                /\ Range(db_input_cache) \subseteq history'
                /\ db_input_cache' = <<>> /\ db_output_cache' = <<>>
                /\ ret'.op = "end_session" => session_number' = 0 ]_vars

\* A session opened by a bare new_session() was closed: its count includes
\* the lines stored before it was opened.
C9_Witness ==
    /\ ret.op = "end_session" /\ ~ret.raised
    /\ \E k \in 1..Len(sessions) :
          /\ sessions[k].end # None
          /\ sessions[k].num_cmds = Some(2)
          /\ Cardinality({ r \in stored_inputs : r.session = k }) = 1

\* C10: no row of history or output_history has session = 0 (the sessions
\* table assigns ids from 1).
C10_NoRowUnderSessionZero ==
    \A r \in history \cup output_history : r.session # 0

\* C11: a session row's end time and num_cmds are NULL together; they get a
\* value in one step only, a returning end_session or reset on that session
\* as the open one; once set, no call changes them, and no row is removed.
C11_ClosedOnce ==
    [][ /\ Len(sessions') >= Len(sessions)
        /\ \A k \in 1..Len(sessions) :
              /\ (sessions[k].end = None) = (sessions[k].num_cmds = None)
              /\ sessions[k].end # None
                 => /\ sessions'[k].end = sessions[k].end
                    /\ sessions'[k].num_cmds = sessions[k].num_cmds
              /\ (sessions[k].end = None /\ sessions'[k].end # None)
                 => /\ k = session_number
                    /\ ret'.op \in {"end_session", "reset"}
                    /\ ~ret'.raised
                    /\ sessions'[k].num_cmds # None ]_vars

\* Two sessions were closed at different times, and the session opened after
\* them was named.
C11_Witness ==
    /\ ret.op = "name_session"
    /\ session_number = 3
    /\ sessions[1].end # None /\ sessions[2].end # None
    /\ sessions[1].end # sessions[2].end
    /\ sessions[3].remark # <<>>

\* The texts a list of the manager holds after its seed for the rows given.
BufferOf(rows, raw) ==
    << <<>> >> \o [k \in 1..Len(rows) |->
                     rstrip(IF raw THEN rows[k].source_raw ELSE rows[k].source)]

\* C12 as stated: the two input lists have the same length, hold the empty
\* seed at index 0, and after it exactly the non-ignored inputs stored under
\* the live session, in storage order.
C12_BuffersAreLiveSession ==
    /\ Len(input_hist_parsed) = Len(input_hist_raw)
    /\ input_hist_parsed[1] = <<>> /\ input_hist_raw[1] = <<>>
    /\ session_number # 0
       => LET live == Ascending({ r \in stored_inputs : r.session = session_number })
          IN  /\ input_hist_raw = BufferOf(live, TRUE)
              /\ input_hist_parsed = BufferOf(live, FALSE)

\* C12 as amended: the two input lists have the same length, hold the empty
\* seed at index 0, and after it exactly the non-ignored inputs stored since
\* construction or the last reset, rstrip()ped and in storage order: a
\* non-ignored store_inputs appends to both, a returning reset cuts both back
\* to the seed, and no other call (new_session and end_session included)
\* changes them.
C12_BuffersAreInputsSinceReset ==
    /\ [](/\ Len(input_hist_parsed) = Len(input_hist_raw)
          /\ input_hist_parsed[1] = <<>> /\ input_hist_raw[1] = <<>>
          /\ Len(input_hist_raw) = n_since_reset + 1)
    /\ [][ IF ret'.op = "store_inputs" /\ strip(ret'.source_raw) \notin _exit_commands
           THEN /\ input_hist_raw' = Append(input_hist_raw, rstrip(ret'.source_raw))
                /\ input_hist_parsed' = Append(input_hist_parsed, rstrip(ret'.source))
           ELSE IF ret'.op = "reset" /\ ~ret'.raised
           THEN input_hist_raw' = << <<>> >> /\ input_hist_parsed' = << <<>> >>
           ELSE UNCHANGED << input_hist_raw, input_hist_parsed >> ]_vars

\* A line was stored in session 1, new_session() opened session 2, and a
\* second line was stored: the lists hold both.
C12_Witness ==
    /\ ret.op = "store_inputs"
    /\ session_number = 2
    /\ Len(input_hist_raw) = 3
    /\ \E r \in stored_inputs : r.session = 1
    /\ \E r \in stored_inputs : r.session = 2

\* The rows C13 describes for get_history on the current session: the stored
\* lines i with start <= i < stop of the list, a negative bound first raised
\* by the length of the list, None standing for the end, nothing raised.
LinesBetween(start, stop, raw) ==
    LET input_hist == IF raw THEN input_hist_raw ELSE input_hist_parsed
        n == Len(input_hist)
        first == IF start < 0 THEN start + n ELSE start
        last == IF stop = None THEN n
                ELSE IF stop[1] < 0 THEN stop[1] + n
                ELSE stop[1]
        upto == IF last > n THEN n ELSE last
    IN  [rows |-> [k \in 1..(IF upto > first THEN upto - first ELSE 0) |->
                      << 0, first + k - 1, input_hist[first + k] >>],
         raised |-> FALSE]

\* C13: for session 0 or the live session number, get_history(session,
\* start, stop) yields from the lists exactly the stored lines i with
\* start <= i < stop, in ascending order: stop = 0 selects nothing, and a
\* stop past the last stored line selects the lines that exist, without error.
C13_CurrentSessionSlice ==
    ret.op = "get_history"
    => \A session \in {0, session_number} :
         \A raw \in BOOLEAN :
           \A start \in 1..Len(input_hist_raw) :
             \A stop \in {None} \cup { Some(k) : k \in -1..(Len(input_hist_raw) + 1) } :
                GetHistory(session, start, stop, raw) = LinesBetween(start, stop, raw)

\* C14: when get_hist_tail(n) has returned, the cache has been written out
\* and the result is, for every n >= 0, the min(n, total) rows of history
\* with the greatest (session, line) keys, over all sessions, in ascending
\* (session, line) order.
C14_TailIsNewestAscending ==
    (ret.op = "get_hist_tail" /\ ~ret.raised)
    => /\ db_input_cache = <<>>
       /\ stored_inputs \subseteq history
       /\ \A n \in 0..(Cardinality(history) + 1) :
            LET tail == HistTail(n, TRUE, FALSE)
                total == Cardinality(history)
                key(k) == [session |-> tail[k][1], line |-> tail[k][2]]
            IN  /\ Len(tail) = IF n < total THEN n ELSE total
                /\ \A k \in 1..Len(tail) :
                      \E r \in history :
                          tail[k] = << r.session, r.line, r.source_raw >>
                /\ \A a, b \in 1..Len(tail) : a < b => KeyLess(key(a), key(b))
                /\ \A r \in history :
                      (\A k \in 1..Len(tail) : Key(r) # Key(key(k)))
                      => \A k \in 1..Len(tail) : KeyLess(r, key(k))

\* A tail read returned over rows of two sessions that had been held in the
\* cache, more rows than a short tail takes.
C14_Witness ==
    /\ ret.op = "get_hist_tail" /\ ~ret.raised
    /\ db_cache_size = 100
    /\ Cardinality(history) >= 3
    /\ \E r, q \in history : r.session # q.session

\* The signed session offset a session part stands for: 0 when none is
\* written, -k for "~k", k for "k".
SessValue(part) ==
    IF part = None THEN 0
    ELSE IF part[1].tilde THEN 0 - part[1].n ELSE part[1].n

\* The session a token ends in: its start session where none is written.
EndSessValue(c) ==
    IF c.rest = None \/ c.rest[1].endsess = None THEN SessValue(c.startsess)
    ELSE SessValue(c.rest[1].endsess)

\* The exclusive stop of a token: start+1 for a bare start, end for ":",
\* end+1 for "-".
StopValue(c) ==
    IF c.rest = None THEN c.start + 1
    ELSE IF c.rest[1].sep = ":" THEN c.rest[1].end
    ELSE c.rest[1].end + 1

\* C15: for a token naming one session (sessionB omitted or equal to
\* sessionA) extract_hist_ranges yields exactly one triple (sess, start,
\* stop), with sess 0, -k or k and stop start+1, end or end+1 as written;
\* "5" gives (0,5,6), "1-3" (0,1,4), "2:4" (0,2,4), "~2/3-5" (-2,3,6).
C15_SingleSessionTriple ==
    ret.op = "extract_hist_ranges"
    => /\ \A c \in TokenParts :
            (EndSessValue(c) = SessValue(c.startsess) /\ ret.ranges_str = TokenText(c))
            => /\ ~ret.raised
               /\ ret.triples
                    = << << SessValue(c.startsess), c.start, Some(StopValue(c)) >> >>
       /\ ret.ranges_str = << "5" >> => ret.triples = << << 0, 5, Some(6) >> >>
       /\ ret.ranges_str = << "1", "-", "3" >> => ret.triples = << << 0, 1, Some(4) >> >>
       /\ ret.ranges_str = << "2", ":", "4" >> => ret.triples = << << 0, 2, Some(4) >> >>
       /\ ret.ranges_str = << "~", "2", "/", "3", "-", "5" >> => ret.triples = << << 0 - 2, 3, Some(6) >> >>

\* "~3/12-~3/5", a token whose two sessions are written and equal, was parsed.
C15_Witness ==
    /\ ret.op = "extract_hist_ranges"
    /\ ret.ranges_str = << "~", "3", "/", "1", "2", "-", "~", "3", "/", "5" >>
    /\ ret.triples = << << 0 - 3, 12, Some(6) >> >>

C17_DocstringExample ==
    (ret.op = "extract_hist_ranges" /\ ret.ranges_str = << "~", "8", "/", "5", "-", "~", "7", "/", "4", " ", "2" >>)
    => /\ ~ret.raised
       /\ ret.triples = << << 0 - 8, 5, None >>, << 0 - 7, 1, Some(4) >>,
                           << 0, 2, Some(3) >> >>

\* A string of digits.
IsNumber(s) == s # <<>> /\ \A k \in 1..Len(s) : IsDigit(s[k])

\* [session/]line, the session a number with or without "~".
IsLineRef(s) ==
    \/ IsNumber(s)
    \/ \E k \in 1..Len(s) :
          /\ s[k] = "/"
          /\ LET sess == SubSeq(s, 1, k - 1)
             IN  IsNumber(sess) \/ (sess # <<>> /\ sess[1] = "~" /\ IsNumber(Tail(sess)))
          /\ IsNumber(SubSeq(s, k + 1, Len(s)))

\* The grammar [sessionA/]start[(-|:)[sessionB/]end], matched as a whole.
InGrammar(token) ==
    \/ IsLineRef(token)
    \/ \E k \in 1..Len(token) :
          /\ token[k] \in {"-", ":"}
          /\ IsLineRef(SubSeq(token, 1, k - 1))
          /\ IsLineRef(SubSeq(token, k + 1, Len(token)))

\* A sequence without its k-th element.
Without(seq, k) == SubSeq(seq, 1, k - 1) \o SubSeq(seq, k + 1, Len(seq))

\* C19: a whitespace-separated token that does not match the grammar as a
\* whole yields no triple and no error: the outcome is that of the string
\* without the token.
C19_UnmatchedTokenSkipped ==
    ret.op = "extract_hist_ranges"
    => LET tokens == split(ret.ranges_str)
       IN  \A k \in 1..Len(tokens) :
              ~InGrammar(tokens[k])
              => RangesOfAll(Without(tokens, k))
                    = [triples |-> ret.triples, raised |-> ret.raised]

\* The session a signed offset stands for under the current session number.
Resolved(sess) == IF sess <= 0 THEN sess + session_number ELSE sess

\* A token of the string names two sessions, the second of which, resolved,
\* precedes the first.
HasBackwardToken(ranges_str) ==
    \E k \in 1..Len(split(ranges_str)) :
        \E c \in TokenParts :
            /\ c.rest # None
            /\ c.rest[1].endsess # None
            /\ Resolved(EndSessValue(c)) < Resolved(SessValue(c.startsess))
            /\ split(ranges_str)[k] = TokenText(c)

\* C18: a range string with a multi-session token whose resolved end session
\* precedes its start session is rejected as a whole: the call fails, and no
\* triple and no history row is delivered, wherever the token stands.
C18_BackwardRangeRejected ==
    (/\ ret.op \in {"extract_hist_ranges", "get_hist_from_rangestr"}
     /\ HasBackwardToken(ret.ranges_str))
    => /\ ret.raised
       /\ ret.op = "extract_hist_ranges" => ret.triples = <<>>
       /\ ret.op = "get_hist_from_rangestr" => ret.rows = <<>>

\* C20: after every store_inputs call that returned normally the
\* input cache is empty under db_cache_size <= 1 (the row of the call being
\* in the store) and holds fewer than db_cache_size rows otherwise.
C20_AnyStoreLeavesCacheShort ==
    (ret.op = "store_inputs" /\ ~ret.raised)
    => /\ db_cache_size <= 1
          => /\ db_input_cache = <<>>
             /\ strip(ret.source_raw) \notin _exit_commands
                => \E r \in history : /\ r.line = ret.line_num
                                      /\ r.source_raw = ret.source_raw
       /\ db_cache_size > 1 => Len(db_input_cache) < db_cache_size

\* C20, for the calls that store a line: such a call (its input is not
\* an ignored command) appends the row to the cache and writes the cache out
\* exactly when the cache then holds db_cache_size rows or more; the call
\* raises only from that flush.  When it returns normally, under
\* db_cache_size <= 1 the row is in the store and the cache is empty, and
\* under a greater db_cache_size the cache holds fewer rows than that.
C20_ThresholdFlush ==
    [][ (/\ ret'.op = "store_inputs"
         /\ strip(ret'.source_raw) \notin _exit_commands)
        => LET row == [session |-> session_number, line |-> ret'.line_num,
                       source |-> ret'.source, source_raw |-> ret'.source_raw]
               due == Len(db_input_cache) + 1 >= db_cache_size
           IN  /\ ret'.raised => due
               /\ ~ret'.raised
                  => /\ db_cache_size <= 1
                        => db_input_cache' = <<>> /\ row \in history'
                     /\ db_cache_size > 1
                        => Len(db_input_cache') < db_cache_size
                     /\ IF due
                        THEN /\ db_input_cache' = <<>>
                             /\ history' = history \cup Range(db_input_cache) \cup {row}
                        ELSE /\ db_input_cache' = Append(db_input_cache, row)
                             /\ history' = history ]_vars

\* Under db_cache_size = 2 the second line of session 1 filled the cache and
\* the call wrote both rows out.
C20_Witness ==
    /\ ret.op = "store_inputs" /\ ~ret.raised
    /\ strip(ret.source_raw) \notin _exit_commands
    /\ db_cache_size = 2
    /\ ncalls = 2
    /\ db_input_cache = <<>>
    /\ Cardinality({ r \in history : r.session = 1 }) = 2

\* C21: store_output(line_num) never touches the input cache or history.  It
\* changes nothing unless db_log_output is set and output_hist[line_num] is
\* non-empty; otherwise it makes one row (session_number, line_num, the
\* serialized reprs), appended to db_output_cache when db_cache_size > 1 and
\* inserted into output_history at once when db_cache_size <= 1 (the call
\* raising, and inserting nothing, only when the key is there already).  A
\* cached output row reaches the store only in a step that writes out both
\* caches whole, and every step that writes input rows takes the cached
\* output rows with them.
C21_StoreOutput ==
    /\ [][ ret'.op = "store_output"
           => LET line_num == ret'.line_num
                  values == output_hist[line_num]
                  row == [session |-> session_number, line |-> line_num,
                          output |-> [json |-> [k \in 1..Len(values) |->
                                                   ToString(values[k])]]]
              IN  /\ UNCHANGED << db_input_cache, history >>
                  /\ IF ~db_log_output \/ values = <<>>
                     THEN /\ UNCHANGED << db_output_cache, output_history >>
                          /\ ~ret'.raised
                     ELSE IF db_cache_size > 1
                     THEN /\ db_output_cache' = Append(db_output_cache, row)
                          /\ UNCHANGED output_history
                          /\ ~ret'.raised
                     ELSE /\ UNCHANGED db_output_cache
                          /\ ret'.raised = (Key(row) \in Keys(output_history))
                          /\ output_history' = IF ret'.raised THEN output_history
                                               ELSE output_history \cup {row} ]_vars
    /\ [][ /\ (\E o \in Range(db_output_cache) :
                  o \in output_history' /\ o \notin output_history)
              => /\ db_output_cache' = <<>> /\ db_input_cache' = <<>>
                 /\ Range(db_output_cache) \subseteq output_history'
                 /\ Range(db_input_cache) \subseteq history'
           /\ history' # history
              => /\ db_output_cache' = <<>>
                 /\ Range(db_output_cache) \subseteq output_history' ]_vars

\* Under db_cache_size = 2 an output row was cached, and the second input
\* filled the input cache: the flush wrote the output row with the two
\* input rows.
C21_Witness ==
    /\ ret.op = "store_inputs" /\ ~ret.raised
    /\ db_log_output
    /\ db_cache_size = 2
    /\ Cardinality(history) = 2
    /\ output_history # {}
    /\ db_output_cache = <<>>

\* The raw source of the k-th of the rows given, the empty string where
\* there is none.
RawOf(rows, k) == IF k >= 1 /\ k <= Len(rows) THEN rows[k].source_raw ELSE <<>>

\* The name is bound to the value in the namespace.
Binds(name, value) == name \in DOMAIN user_ns /\ user_ns[name] = value

\* C22: after a non-ignored store_inputs(n, p, r) has returned, user_ns binds
\* _i<n> to r and _i, _ii, _iii to the raw sources of the first, second and
\* third most recent inputs stored before it, the empty string where fewer
\* exist (the stored inputs taken in (session, line) order, which is the
\* order of storing as long as none was stored without a session).  Each
\* such call shifts _i00, _i, _ii, _iii by one position, and no other call,
\* an ignored command included, changes them or the namespace.
C22_LastInputsRotate ==
    /\ []((/\ ret.op = "store_inputs"
           /\ ~ret.raised
           /\ strip(ret.source_raw) \notin _exit_commands
           /\ \A r \in stored_inputs : r.session # 0)
          => LET stored == Ascending(stored_inputs)
                 last == Len(stored)
             IN  /\ stored[last].line = ret.line_num
                 /\ stored[last].source_raw = ret.source_raw
                 /\ Binds("_i" \o ToString(ret.line_num), ret.source_raw)
                 /\ Binds("_i", RawOf(stored, last - 1))
                 /\ Binds("_ii", RawOf(stored, last - 2))
                 /\ Binds("_iii", RawOf(stored, last - 3)))
    /\ [][ IF /\ ret'.op = "store_inputs"
              /\ ~ret'.raised
              /\ strip(ret'.source_raw) \notin _exit_commands
           THEN /\ _i00' = ret'.source_raw
                /\ _i' = _i00 /\ _ii' = _i /\ _iii' = _ii
                /\ \A name \in DOMAIN user_ns :
                      name \notin {"_i", "_ii", "_iii", "_i" \o ToString(ret'.line_num)}
                      => name \in DOMAIN user_ns' /\ user_ns'[name] = user_ns[name]
           ELSE UNCHANGED << _i00, _i, _ii, _iii, user_ns >> ]_vars

\* Four inputs were stored over five prompts, one prompt taken by an ignored
\* command: _iii holds the first of them.
C22_Witness ==
    /\ ret.op = "store_inputs" /\ ~ret.raised
    /\ strip(ret.source_raw) \notin _exit_commands
    /\ ret.line_num = 5
    /\ Cardinality(stored_inputs) = 4
    /\ \A r \in stored_inputs : r.session # 0
    /\ "_iii" \in DOMAIN user_ns /\ user_ns["_iii"] # <<>>
    /\ user_ns["_iii"] # user_ns["_i"]

\* C23: the in-memory view and the persisted view of the live session agree:
\* once the cache is written out, every history row of the live session
\* (line, source_raw, source) is what get_history(0) yields for that line
\* from the lists, raw and processed.
C23_MemoryAgreesWithStore ==
    (ret.op = "writeout_cache" /\ ~ret.raised /\ session_number # 0)
    => \A r \in Range(StoreRowsOf(session_number)) :
          /\ << 0, r.line, r.source_raw >>
                \in Range(GetHistory(0, 1, None, TRUE).rows)
          /\ << 0, r.line, r.source >>
                \in Range(GetHistory(0, 1, None, FALSE).rows)

====
